---- MODULE Spec2Model ----
(***************************************************************************)
(* Inventory backend (src/index.js, src/unnamed/part_000): an Express      *)
(* server over three Mongoose collections (Shoes, Bags, Dresses) and a     *)
(* Sale collection, the ledger.  The model keeps the catalog, the ledger   *)
(* and the last HTTP response, and has one action per route handler.       *)
(*                                                                         *)
(* JavaScript values are records [t, v].  Numbers are kept in half units   *)
(* (v = 2 * value), so that 1.5 is the number with v = 3 and the whole     *)
(* numbers are the even v.                                                 *)
(***************************************************************************)
EXTENDS Integers, Sequences, FiniteSets, TLC

(* ------------------------------ bounds -------------------------------- *)

\* Products that can be created in one run (ObjectIds handed out).
MaxProducts == 1
\* Ledger entries kept; handlers that would append more are not started.
MaxSales == 3
\* Largest stock (in whole units) a handler may store; larger results are
\* not explored.
MaxStock == 24
\* Requests the server has in progress at once.
NumHandlers == 2
\* Instants told apart within one day (a day is DayLen instants, the first
\* at 00:00 UTC); days run from 0 to MaxDay.
DayLen == 4
MaxDay == 2
\* Ledger entries of the ledgers the aggregators are applied to.
MaxEntries == 2
\* Products of the catalogs, and distinct names of the ledgers, the
\* dashboard lists are computed from (one more than a list holds).
BoardSize == 6

(* --------------------------- JavaScript values ------------------------ *)

JsUndefined == [t |-> "undefined", v |-> 0]
JsNaN == [t |-> "nan", v |-> 0]
\* a Number, h its value in half units
JsNum(h) == [t |-> "number", v |-> h]
\* a whole Number
Whole(n) == JsNum(2 * n)
\* a String holding the decimal numeral of the whole number n ("2")
JsNumStr(n) == [t |-> "numstr", v |-> 2 * n]
\* a non-empty String that is no numeral ("abc")
JsText == [t |-> "text", v |-> 0]
\* a function object, such as the members an object inherits from
\* Object.prototype
JsFunction == [t |-> "function", v |-> 0]
\* what a failed Mongoose cast leaves: the document is invalid
CastError == [t |-> "casterror", v |-> 0]

IsNumber(x) == x.t = "number"
IsWhole(x) == IsNumber(x) /\ x.v % 2 = 0

\* ToBoolean: undefined, NaN and 0 are falsy; every modelled string is
\* non-empty, hence truthy (also "0").
Truthy(x) ==
    CASE x.t = "undefined" -> FALSE
      [] x.t = "nan" -> FALSE
      [] x.t = "number" -> x.v # 0
      [] OTHER -> TRUE

\* ToNumber
ToNumber(x) ==
    CASE x.t = "number" -> x
      [] x.t = "numstr" -> JsNum(x.v)
      [] OTHER -> JsNaN

\* a <= b and a < b on the operands the handlers compare (never two
\* strings): both are converted with ToNumber, and NaN compares false.
JsLessEq(a, b) ==
    LET x == ToNumber(a)
        y == ToNumber(b)
    IN IsNumber(x) /\ IsNumber(y) /\ x.v <= y.v

JsLess(a, b) ==
    LET x == ToNumber(a)
        y == ToNumber(b)
    IN IsNumber(x) /\ IsNumber(y) /\ x.v < y.v

\* the decimal numeral of whole s followed by the numeral of whole d >= 0
\* ("10" + "2" = "102"), as a number in whole units
Pow10Digits(d) == IF d < 10 THEN 10 ELSE IF d < 100 THEN 100 ELSE 1000
ConcatNumerals(s, d) ==
    IF s >= 0 THEN s * Pow10Digits(d) + d ELSE 0 - ((0 - s) * Pow10Digits(d) + d)

\* a + b.  With a string operand + concatenates and the result is a
\* string, given here by the numeral it holds.  A numeral appended to a
\* fractional number ("1.5" + "2" = "1.52") is no value of this model: the
\* result is marked and the handlers guard against it (Representable).
Unrepresentable == [t |-> "unrepresentable", v |-> 0]
JsAdd(a, b) ==
    CASE a.t = "number" /\ b.t = "number" -> JsNum(a.v + b.v)
      [] a.t = "number" /\ b.t = "numstr" ->
            IF IsWhole(a)
            THEN [t |-> "numstr", v |-> 2 * ConcatNumerals(a.v \div 2, b.v \div 2)]
            ELSE Unrepresentable
      [] b.t \in {"numstr", "text"} -> JsText
      [] a.t \in {"text", "function"} -> JsText
      [] OTHER -> JsNaN

\* a - b and a * b convert both operands with ToNumber.
JsSub(a, b) ==
    LET x == ToNumber(a)
        y == ToNumber(b)
    IN IF IsNumber(x) /\ IsNumber(y) THEN JsNum(x.v - y.v) ELSE JsNaN

\* The product of two half-unit numbers; exact because one operand of every
\* product the handlers form (a price) is whole here.
JsMul(a, b) ==
    LET x == ToNumber(a)
        y == ToNumber(b)
    IN IF IsNumber(x) /\ IsNumber(y) THEN JsNum((x.v * y.v) \div 2) ELSE JsNaN

\* parseInt(x, 10): the leading integer of String(x), else NaN.
ParseInt(x) ==
    CASE x.t = "number" ->
            IF x.v >= 0 THEN JsNum(2 * (x.v \div 2))
            ELSE JsNum(0 - 2 * ((0 - x.v) \div 2))
      [] x.t = "numstr" -> JsNum(x.v)
      [] OTHER -> JsNaN

\* Mongoose's cast of a value set on a path of type Number: numbers and
\* numeric strings become numbers, undefined stays unset, NaN and other
\* strings fail the cast.
CastNumber(x) ==
    CASE x.t = "undefined" -> JsUndefined
      [] x.t = "number" -> x
      [] x.t = "numstr" -> JsNum(x.v)
      [] OTHER -> CastError

(* ------------------------------ the store ----------------------------- *)

Categories == {"Shoes", "Bags", "Dresses"}
Names == {"Air"}
Absent == "(absent)"

\* ObjectIds, in the order the driver hands them out; they are unique
\* across the collections.  UnknownId is an ObjectId no document ever has,
\* MalformedId a string that is no ObjectId.
IdPool == <<"o1", "o2", "o3", "o4", "o5", "o6", "o7", "o8">>
Ids == {IdPool[i] : i \in 1..MaxProducts}
UnknownId == "o0"
MalformedId == "abc"
ReqIds == Ids \cup {UnknownId, MalformedId}

NoDoc == [category |-> Absent, name |-> Absent, stock |-> JsUndefined, price |-> JsUndefined]

VARIABLES
    products,   \* ObjectId -> the stored document, or NoDoc
    sales,      \* the Sale collection in insertion order
    nextId,     \* index in IdPool of the next ObjectId
    res,        \* the last response: [op, status, error]
    expected,   \* ObjectId -> what the successful calls so far add up to:
                \* the stock at creation, plus the quantities of the
                \* successful add requests, minus those of the successful
                \* deduct requests; Void once the document was overwritten
                \* or deleted (history, read by no handler)
    handlers,   \* request in progress -> [pc, plan, seen]: where it stands
                \* between its awaits, what it prepared, the stock it read
    staleWrite, \* some handler saved a stock computed from a value that
                \* was no longer the stored one (history)
    rejected,   \* Sale inserts that failed after their catalog write
                \* (history; counted against MaxSales)
    now,        \* the server's clock: the current instant (UTC)
    tz,         \* the server's time zone: local time = UTC + tz instants
    dst,        \* the last change of the zone's clock: since instant at the
                \* offset is tz, before it it was tz - by
    report      \* the body of the last aggregator or log response

vars == <<products, sales, nextId, res, expected, handlers, staleWrite, rejected,
          now, tz, dst, report>>

Handlers == 1..NumHandlers

Void == [t |-> "void", v |-> 0]

Response(op, status, error) == [op |-> op, status |-> status, error |-> error]

\* Model.findById(id) of the collection of category cat: the document, or
\* null (NoDoc).  A malformed id makes the query throw.
FindThrows(id) == id = MalformedId
FindById(cat, id) ==
    IF id \in Ids /\ products[id].category = cat THEN products[id] ELSE NoDoc

\* new Sale({...}): every path is cast; the document is invalid when a
\* Number path fails its cast.  Paths the schema does not declare
\* (revenue, action) are dropped.  The date is the time of writing, by the
\* schema's default or by the handler's new Date().
NewSale(productId, cat, name, quantity, price, total, type) ==
    [productId |-> productId, category |-> cat, name |-> name,
     quantity |-> CastNumber(quantity), price |-> CastNumber(price),
     total |-> CastNumber(total), type |-> type, date |-> now]
SaleValid(s) == s.quantity # CastError /\ s.price # CastError /\ s.total # CastError

\* values the model can hold: whole or half numbers up to MaxStock
Representable(x) ==
    /\ x.t # "unrepresentable"
    /\ x.t \in {"number", "numstr"} => (x.v <= 2 * MaxStock /\ x.v >= 0 - 2 * MaxStock)

(* ------------------------------ handlers ------------------------------ *)
\* A handler runs in three parts, separated by its awaits: it validates the
\* request, reads the document and prepares its two writes (Plan...); the
\* catalog write happens (Stored); the Sale insert happens.  The sequential
\* actions run the three parts in one step (Complete); the concurrent ones
\* interleave them.

\* catch (err) { res.status(500).json({ error: err.message }) }
ServerError(op) == Response(op, 500, "err.message")
NoError == Response("", 0, "")
NotFoundMsg(cat) ==
    CASE cat = "Shoes" -> "Shoe not found"
      [] cat = "Bags" -> "Bag not found"
      [] OTHER -> "Dress not found"

\* the check without its second half: only falsy quantities are refused
InvalidQuantityFalsyOnly(q) == ~Truthy(q)

\* if (!quantity || quantity <= 0)
InvalidQuantity(q) == ~Truthy(q) \/ JsLessEq(q, Whole(0))

\* the comparison with its operands exchanged
InsufficientStockSwapped(stock, q) == JsLess(q, stock)
\* the check left out
InsufficientStockNever(stock, q) == FALSE

\* if (shoe.stock < quantity)
InsufficientStock(stock, q) == JsLess(stock, q)

\* what a handler has prepared: the response if it ends here (err), else
\* the document as it will be saved and the Sale it will insert
Plan(op, err, id, doc, sale) ==
    [op |-> op, err |-> err, id |-> id, doc |-> doc, sale |-> sale]
NoSale == NewSale(MalformedId, Absent, Absent, JsUndefined, JsUndefined, JsUndefined, Absent)
Refuse(op, err) == Plan(op, err, MalformedId, NoDoc, NoSale)

\* doc.stock = value followed by doc.save(): the value is cast when it is
\* set, and save() rejects a document with a failed cast before it writes
SetStock(op, cat, id, doc, newStock, quantity, total) ==
    LET cast == CastNumber(newStock)
    IN IF cast = CastError
       THEN Refuse(op, ServerError(op))
       ELSE Plan(op, NoError, id, [doc EXCEPT !.stock = cast],
                 NewSale(id, cat, doc.name, quantity, doc.price, total, op))

\* POST /api/shoes, /api/bags, /api/dresses
PlanCreate(cat, name, stock, price) ==
    LET id == IdPool[nextId]
        doc == [category |-> cat, name |-> name,
                stock |-> CastNumber(stock), price |-> CastNumber(price)]
    IN IF doc.stock = CastError \/ doc.price = CastError
       THEN Refuse("create", ServerError("create"))
       ELSE Plan("create", NoError, id, doc,
                 IF cat = "Shoes"
                 THEN NewSale(id, cat, Absent, stock, JsUndefined, JsMul(price, stock), "add")
                 ELSE NewSale(id, cat, doc.name, stock, price, JsMul(price, stock), "add"))

\* POST /api/shoes/:id/add
PlanAddShoes(id, q) ==
    LET shoe == FindById("Shoes", id)
    IN IF InvalidQuantity(q)
       THEN Refuse("add", Response("add", 400, "Invalid quantity"))
       ELSE IF FindThrows(id)
       THEN Refuse("add", ServerError("add"))
       ELSE IF shoe = NoDoc
       THEN Refuse("add", Response("add", 404, NotFoundMsg("Shoes")))
       ELSE SetStock("add", "Shoes", id, shoe, JsAdd(shoe.stock, q), q, JsMul(shoe.price, q))

\* POST /api/bags/:id/add, POST /api/dresses/:id/add
PlanAddParsed(cat, id, q) ==
    LET doc == FindById(cat, id)
        quantity == ParseInt(q)
    IN IF FindThrows(id)
       THEN Refuse("add", ServerError("add"))
       ELSE IF doc = NoDoc
       THEN Refuse("add", Response("add", 404, NotFoundMsg(cat)))
       ELSE IF InvalidQuantity(quantity)
       THEN Refuse("add", Response("add", 400, "Invalid quantity"))
       ELSE SetStock("add", cat, id, doc, JsAdd(doc.stock, quantity), quantity, Whole(0))

PlanAdd(cat, id, q) ==
    IF cat = "Shoes" THEN PlanAddShoes(id, q) ELSE PlanAddParsed(cat, id, q)

\* POST /api/shoes/:id/deduct, /api/bags/:id/deduct, /api/dresses/:id/deduct
PlanDeduct(cat, id, q) ==
    LET doc == FindById(cat, id)
    IN IF InvalidQuantity(q)
       THEN Refuse("deduct", Response("deduct", 400, "Invalid quantity"))
       ELSE IF FindThrows(id)
       THEN Refuse("deduct", ServerError("deduct"))
       ELSE IF doc = NoDoc
       THEN Refuse("deduct", Response("deduct", 404, NotFoundMsg(cat)))
       ELSE IF InsufficientStock(doc.stock, q)
       THEN Refuse("deduct", Response("deduct", 400, "Not enough stock"))
       ELSE SetStock("deduct", cat, id, doc, JsSub(doc.stock, q), q, JsMul(doc.price, q))

\* await doc.save(): a new document is inserted; of a loaded document the
\* modified path, stock, is written with $set
Stored(plan) ==
    IF plan.op = "create"
    THEN [products EXCEPT ![plan.id] = plan.doc]
    ELSE [products EXCEPT ![plan.id].stock = plan.doc.stock]

\* res.status(201) of the create handlers, 200 of the others
Success(op) == Response(op, IF op = "create" THEN 201 ELSE 200, "")

Outcome(r, p, s, n) == [res |-> r, products |-> p, sales |-> s, nextId |-> n]
\* the outcome ends in the catch block after the catalog write
AppendFailed(plan, o) == plan.err = NoError /\ o.res.status = 500
Allocated(plan) == IF plan.op = "create" THEN nextId + 1 ELSE nextId

\* the whole handler, run without interruption.  ledgerOk says whether the
\* store accepts the Sale insert; an invalid Sale is rejected in any case.
\* The catch block answers 500 and undoes nothing.
Complete(plan, ledgerOk) ==
    IF plan.err # NoError
    THEN Outcome(plan.err, products, sales, nextId)
    ELSE IF ~(SaleValid(plan.sale) /\ ledgerOk)
    THEN Outcome(ServerError(plan.op), Stored(plan), sales, Allocated(plan))
    ELSE Outcome(Success(plan.op), Stored(plan), Append(sales, plan.sale), Allocated(plan))

CreateOutcome(cat, name, stock, price, ledgerOk) ==
    Complete(PlanCreate(cat, name, stock, price), ledgerOk)
AddOutcome(cat, id, q, ledgerOk) == Complete(PlanAdd(cat, id, q), ledgerOk)
DeductOutcome(cat, id, q, ledgerOk) == Complete(PlanDeduct(cat, id, q), ledgerOk)

\* GET /api/shoes/:id, /api/bags/:id, /api/dresses/:id
GetOutcome(cat, id) ==
    IF FindThrows(id)
    THEN Outcome(ServerError("get"), products, sales, nextId)
    ELSE IF FindById(cat, id) = NoDoc
    THEN Outcome(Response("get", 404, NotFoundMsg(cat)), products, sales, nextId)
    ELSE Outcome(Response("get", 200, ""), products, sales, nextId)

\* an update that also records the overwritten stock in the ledger
UpdateOutcomeLogged(id, stock, price) ==
    LET shoe == FindById("Shoes", id)
    IN IF FindThrows(id) \/ shoe = NoDoc
       THEN Outcome(ServerError("update"), products, sales, nextId)
       ELSE Outcome(Response("update", 200, ""),
                    [products EXCEPT ![id].stock = CastNumber(stock)],
                    Append(sales, NewSale(id, "Shoes", shoe.name, stock, shoe.price,
                                          Whole(0), "add")),
                    nextId)

\* PUT /api/shoes/:id with body {stock} or {price} (JsUndefined: the field
\* is not in the body)
UpdateOutcome(id, stock, price) ==
    LET shoe == FindById("Shoes", id)
        s == CastNumber(stock)
        p == CastNumber(price)
        doc == [shoe EXCEPT !.stock = IF stock = JsUndefined THEN @ ELSE s,
                            !.price = IF price = JsUndefined THEN @ ELSE p]
    IN IF FindThrows(id) \/ s = CastError \/ p = CastError
       THEN Outcome(ServerError("update"), products, sales, nextId)
       ELSE IF shoe = NoDoc
       THEN Outcome(Response("update", 404, NotFoundMsg("Shoes")), products, sales, nextId)
       ELSE Outcome(Response("update", 200, ""), [products EXCEPT ![id] = doc], sales, nextId)

\* a delete that takes the product's ledger entries with it
DeleteOutcomeCascade(id) ==
    IF FindThrows(id) \/ FindById("Shoes", id) = NoDoc
    THEN Outcome(ServerError("delete"), products, sales, nextId)
    ELSE Outcome(Response("delete", 200, ""), [products EXCEPT ![id] = NoDoc],
                 SelectSeq(sales, LAMBDA e : e.productId # id), nextId)

\* DELETE /api/shoes/:id
DeleteOutcome(id) ==
    IF FindThrows(id)
    THEN Outcome(ServerError("delete"), products, sales, nextId)
    ELSE IF FindById("Shoes", id) = NoDoc
    THEN Outcome(Response("delete", 404, NotFoundMsg("Shoes")), products, sales, nextId)
    ELSE Outcome(Response("delete", 200, ""), [products EXCEPT ![id] = NoDoc], sales, nextId)

NoPlan == Refuse("", NoError)
NoReport == [op |-> "none"]
\* a zone whose clock never changes
NoDst == [at |-> 0, by |-> 0]

Init ==
    /\ now = DayLen * MaxDay + 1
    /\ tz = 0
    /\ dst = NoDst
    /\ products = [i \in Ids |-> NoDoc]
    /\ sales = <<>>
    /\ nextId = 1
    /\ res = Response("none", 0, "")
    /\ expected = [i \in Ids |-> Void]
    /\ handlers = [h \in Handlers |-> [pc |-> "idle", plan |-> NoPlan, seen |-> JsUndefined]]
    /\ staleWrite = FALSE
    /\ rejected = 0
    /\ report = NoReport

(* ------------------------------- inputs ------------------------------- *)

\* request bodies: quantity absent, 0, -1, 1, 1.5, "2", "abc"
Quantities ==
    {JsUndefined, Whole(0), Whole(0 - 1), Whole(1), JsNum(3), JsNumStr(2), JsText}
\* stock of a create request: absent, -1, 0, 2, "abc"
CreateStocks == {JsUndefined, Whole(0 - 1), Whole(0), Whole(2), JsText}
CreatePrices == {Whole(3)}
UpdateBodies ==
    {[stock |-> Whole(0 - 1), price |-> JsUndefined],
     [stock |-> JsUndefined, price |-> Whole(5)]}

(* --------------------- sequential request handling -------------------- *)

\* every stored stock the outcome leaves is a value of the model
InBounds(o) ==
    /\ Len(o.sales) + rejected <= MaxSales
    /\ \A i \in Ids : Representable(o.products[i].stock)

Apply(o) ==
    /\ InBounds(o)
    /\ products' = o.products
    /\ sales' = o.sales
    /\ nextId' = o.nextId
    /\ res' = o.res
    /\ UNCHANGED <<handlers, staleWrite, now, tz, dst, report>>

\* a handler that prepared plan runs to its end
Run(plan, ledgerOk) ==
    LET o == Complete(plan, ledgerOk)
    IN /\ Apply(o)
       /\ rejected' = IF AppendFailed(plan, o) THEN rejected + 1 ELSE rejected
       /\ AppendFailed(plan, o) => rejected < MaxSales - Len(sales)

\* the history of a successful add (sign 1) or deduct (sign -1) of q
Account(o, id, q, sign) ==
    expected' =
        IF o.res.status = 200 /\ expected[id] # Void
        THEN [expected EXCEPT ![id] =
                 IF sign = 1 THEN JsAdd(@, ToNumber(q)) ELSE JsSub(@, ToNumber(q))]
        ELSE expected

Create(cat, name, stock, price, ledgerOk) ==
    /\ nextId <= MaxProducts
    /\ LET o == CreateOutcome(cat, name, stock, price, ledgerOk)
       IN /\ Run(PlanCreate(cat, name, stock, price), ledgerOk)
          /\ expected' = [i \in Ids |->
                 IF products[i] = NoDoc /\ o.products[i] # NoDoc
                 THEN o.products[i].stock ELSE expected[i]]

AddStock(cat, id, q, ledgerOk) ==
    LET o == AddOutcome(cat, id, q, ledgerOk)
    IN Run(PlanAdd(cat, id, q), ledgerOk) /\ Account(o, id, q, 1)

DeductStock(cat, id, q, ledgerOk) ==
    LET o == DeductOutcome(cat, id, q, ledgerOk)
    IN Run(PlanDeduct(cat, id, q), ledgerOk) /\ Account(o, id, q, 0 - 1)

UpdateProduct(id, body) ==
    LET o == UpdateOutcome(id, body.stock, body.price)
    IN /\ Apply(o)
       /\ expected' = IF o.res.status = 200 THEN [expected EXCEPT ![id] = Void] ELSE expected
       /\ UNCHANGED rejected

DeleteProduct(id) ==
    LET o == DeleteOutcome(id)
    IN /\ Apply(o)
       /\ expected' = IF o.res.status = 200 THEN [expected EXCEPT ![id] = Void] ELSE expected
       /\ UNCHANGED rejected

GetProduct(cat, id) ==
    /\ Apply(GetOutcome(cat, id))
    /\ UNCHANGED <<expected, rejected>>

Next ==
    \/ \E cat \in Categories, id \in ReqIds : GetProduct(cat, id)
    \/ \E cat \in Categories, name \in Names, stock \in CreateStocks, price \in CreatePrices :
            Create(cat, name, stock, price, TRUE)
    \/ \E cat \in Categories, id \in ReqIds, q \in Quantities : AddStock(cat, id, q, TRUE)
    \/ \E cat \in Categories, id \in ReqIds, q \in Quantities : DeductStock(cat, id, q, TRUE)
    \/ \E id \in ReqIds, body \in UpdateBodies : UpdateProduct(id, body)
    \/ \E id \in ReqIds : DeleteProduct(id)

Spec == Init /\ [][Next]_vars

\* The same requests where the store may reject the Sale insert.
NextFail ==
    \/ \E cat \in Categories, name \in Names, stock \in CreateStocks,
          price \in CreatePrices, ledgerOk \in BOOLEAN :
            Create(cat, name, stock, price, ledgerOk)
    \/ \E cat \in Categories, id \in ReqIds, q \in Quantities, ledgerOk \in BOOLEAN :
            AddStock(cat, id, q, ledgerOk)
    \/ \E cat \in Categories, id \in ReqIds, q \in Quantities, ledgerOk \in BOOLEAN :
            DeductStock(cat, id, q, ledgerOk)

SpecFail == Init /\ [][NextFail]_vars

(* --------------------- concurrent request handling -------------------- *)
\* Node runs a handler up to its next await without interruption; the
\* store applies one operation at a time.  A request is therefore three
\* steps: Receive (validation, findById and everything up to the save),
\* Save (the catalog write), Log (the Sale insert and the response).
\* The requests carry well-formed bodies: positive whole quantities and
\* stocks, so that what goes wrong here goes wrong by interleaving alone.

ConcQuantities == {Whole(1), Whole(2)}
ConcStocks == {Whole(1), Whole(2)}

InFlight == Cardinality({h \in Handlers : handlers[h].pc # "idle"})

Receive(h, plan) ==
    /\ handlers[h].pc = "idle"
    /\ Len(sales) + InFlight < MaxSales
    /\ IF plan.err # NoError
       THEN /\ res' = plan.err
            /\ UNCHANGED <<handlers, nextId>>
       ELSE /\ handlers' = [handlers EXCEPT ![h] =
                    [pc |-> "save", plan |-> plan,
                     seen |-> IF plan.op = "create" THEN JsUndefined
                              ELSE products[plan.id].stock]]
            /\ nextId' = Allocated(plan)
            /\ UNCHANGED res
    /\ UNCHANGED <<products, sales, expected, staleWrite, rejected, now, tz, dst, report>>

ReceiveCreate(h, cat, name, stock, price) ==
    /\ nextId <= MaxProducts
    /\ Receive(h, PlanCreate(cat, name, stock, price))

ReceiveAdd(h, cat, id, q) == Receive(h, PlanAdd(cat, id, q))

ReceiveDeduct(h, cat, id, q) == Receive(h, PlanDeduct(cat, id, q))

\* await doc.save() takes effect
Save(h) ==
    LET plan == handlers[h].plan
    IN /\ handlers[h].pc = "save"
       /\ Representable(plan.doc.stock)
       /\ products' = Stored(plan)
       /\ staleWrite' = (staleWrite \/
              (plan.op # "create" /\ products[plan.id].stock # handlers[h].seen))
       /\ handlers' = [handlers EXCEPT ![h].pc = "log"]
       /\ UNCHANGED <<sales, nextId, res, expected, rejected, now, tz, dst, report>>

\* a handler that inserts its Sale before it has saved the document
LogBeforeSave(h) ==
    LET plan == handlers[h].plan
    IN /\ handlers[h].pc = "save"
       /\ sales' = Append(sales, plan.sale)
       /\ res' = Success(plan.op)
       /\ handlers' = [handlers EXCEPT ![h] =
               [pc |-> "idle", plan |-> NoPlan, seen |-> JsUndefined]]
       /\ UNCHANGED <<products, nextId, expected, staleWrite, rejected, now, tz, dst, report>>

\* await sale.save() takes effect and the handler answers
Log(h) ==
    LET plan == handlers[h].plan
    IN /\ handlers[h].pc = "log"
       /\ IF SaleValid(plan.sale)
          THEN sales' = Append(sales, plan.sale) /\ res' = Success(plan.op)
          ELSE sales' = sales /\ res' = ServerError(plan.op)
       /\ handlers' = [handlers EXCEPT ![h] =
               [pc |-> "idle", plan |-> NoPlan, seen |-> JsUndefined]]
       /\ UNCHANGED <<products, nextId, expected, staleWrite, rejected, now, tz, dst, report>>

NextConc ==
    \E h \in Handlers :
        \/ \E cat \in Categories, name \in Names, stock \in ConcStocks, price \in CreatePrices :
                ReceiveCreate(h, cat, name, stock, price)
        \/ \E cat \in Categories, id \in Ids, q \in ConcQuantities : ReceiveAdd(h, cat, id, q)
        \/ \E cat \in Categories, id \in Ids, q \in ConcQuantities : ReceiveDeduct(h, cat, id, q)
        \/ Save(h)
        \/ Log(h)

SpecConc == Init /\ [][NextConc]_vars

(* ----------------------------- aggregators ---------------------------- *)
\* The dashboard and log routes read the catalog and the ledger and answer
\* with a computed body (report).  Instants are counted from 00:00 UTC of
\* day 0, DayLen to the day.

\* a date of the query string: absent, the date-only string of a day
\* ("2024-01-05"), or a string that is no date
NoDate == [t |-> "absent", day |-> 0]
OnDay(d) == [t |-> "day", day |-> d]
BadDate == [t |-> "invalid", day |-> 0]

\* new Date("YYYY-MM-DD"): 00:00 UTC of that day
ParseDate(x) == DayLen * x.day
\* the calendar day an instant falls on, in UTC and on the server's clock
UtcDay(t) == t \div DayLen
\* the zone's offset at instant t, and the instant a local time stands
\* for (a local time the clock change repeats or skips is read with the
\* offset before the change)
Offset(t) == IF t < dst.at THEN tz - dst.by ELSE tz
ToUtc(w) ==
    IF w - (tz - dst.by) < dst.at \/ w - tz < dst.at THEN w - (tz - dst.by) ELSE w - tz
LocalDay(t) == (t + Offset(t)) \div DayLen
\* new Date(t).setHours(23, 59, 59, 999): the last instant of the day t
\* falls on in the server's time zone
EndOfLocalDay(t) == ToUtc(DayLen * LocalDay(t) + (DayLen - 1))

\* arr.reduce((sum, x) => sum + F(x), 0) over the first n elements
RECURSIVE Reduce(_, _, _)
Reduce(F(_), arr, n) ==
    IF n = 0 THEN Whole(0) ELSE JsAdd(Reduce(F, arr, n - 1), F(arr[n]))
Quantity(e) == e.quantity
Total(e) == e.total
Stock(p) == p.stock
Value(p) == JsMul(p.price, p.stock)

\* .sort({ date: 1 }): stable insertion of the first n elements by date
RECURSIVE SortByDate(_, _)
SortByDate(arr, n) ==
    IF n = 0 THEN <<>>
    ELSE LET done == SortByDate(arr, n - 1)
             k == Cardinality({i \in 1..Len(done) : done[i].date <= arr[n].date})
         IN SubSeq(done, 1, k) \o <<arr[n]>> \o SubSeq(done, k + 1, Len(done))
\* .sort({ date: -1 })
SortByDateDesc(arr) ==
    LET up == SortByDate(arr, Len(arr))
    IN [i \in 1..Len(up) |-> up[Len(up) + 1 - i]]

\* Shoes.find({}), Bags.find({}), Dresses.find({}) and their concatenation
Find(cat) ==
    SelectSeq([n \in 1..Cardinality(DOMAIN products) |-> products[IdPool[n]]],
              LAMBDA p : p.category = cat)
AllProducts == Find("Shoes") \o Find("Bags") \o Find("Dresses")

\* saleQuery of GET /api/dashboard/stats: $gte the start date, $lte the
\* end of the end date's day; a date that is none fails the query's cast
StatsQuery(startDate, endDate) == [startDate |-> startDate, endDate |-> endDate]
QueryThrows(q) == q.startDate = BadDate \/ q.endDate = BadDate
InSaleQuery(e, q) ==
    /\ (q.startDate = NoDate \/ e.date >= ParseDate(q.startDate))
    /\ (q.endDate = NoDate \/ e.date <= EndOfLocalDay(ParseDate(q.endDate)))
FindSales(q) ==
    LET found == SelectSeq(sales, LAMBDA e : InSaleQuery(e, q))
    IN SortByDate(found, Len(found))

\* summary of GET /api/dashboard/stats
Summary(q) ==
    LET salesData == SelectSeq(FindSales(q), LAMBDA e : e.type = "deduct")
        restockData == SelectSeq(FindSales(q), LAMBDA e : e.type = "add")
    IN [totalProducts |-> Len(AllProducts),
        totalStock |-> Reduce(Stock, AllProducts, Len(AllProducts)),
        totalValue |-> Reduce(Value, AllProducts, Len(AllProducts)),
        totalSales |-> Reduce(Quantity, salesData, Len(salesData)),
        totalRevenue |-> Reduce(Total, salesData, Len(salesData)),
        totalRestocked |-> Reduce(Quantity, restockData, Len(restockData))]

\* sales.filter(sale => sale.type === 'deduct')
SalesData(q) == SelectSeq(FindSales(q), LAMBDA e : e.type = "deduct")

\* salesByCategory[sale.category] after the first n sales
RECURSIVE SalesByCategory(_, _, _)
SalesByCategory(arr, n, cat) ==
    IF n = 0 THEN JsUndefined
    ELSE LET acc == SalesByCategory(arr, n - 1, cat)
         IN IF arr[n].category = cat
            THEN JsAdd(IF Truthy(acc) THEN acc ELSE Whole(0), arr[n].quantity)
            ELSE acc

\* salesTrend: the points of the last TrendDays days, oldest first.  The
\* day of a point is today moved back i days on the server's clock
\* (setDate), named by its UTC date (toISOString), and a sale is of the
\* day its own UTC date names.
TrendDays == 7
TrendDate(i) == UtcDay(ToUtc(now + Offset(now) - i * DayLen))
SalesTrend(salesData) ==
    [k \in 1..TrendDays |->
        LET dateStr == TrendDate(TrendDays - k)
            daySales == SelectSeq(salesData, LAMBDA e : UtcDay(e.date) = dateStr)
        IN [date |-> dateStr,
            sales |-> Reduce(Quantity, daySales, Len(daySales)),
            revenue |-> Reduce(Total, daySales, Len(daySales))]]

\* .slice(0, 5)
ListLimit == 5
Slice(arr) == SubSeq(arr, 1, IF Len(arr) < ListLimit THEN Len(arr) ELSE ListLimit)

\* .sort(compare): the first n elements in the order of compare, which
\* says whether its first argument goes after its second; elements it
\* does not order keep their places
RECURSIVE Sort(_, _, _)
Sort(GoesAfter(_, _), arr, n) ==
    IF n = 0 THEN <<>>
    ELSE LET done == Sort(GoesAfter, arr, n - 1)
             k == Cardinality({i \in 1..Len(done) : ~GoesAfter(done[i], arr[n])})
         IN SubSeq(done, 1, k) \o <<arr[n]>> \o SubSeq(done, k + 1, Len(done))

\* lowStockItems: filter(p => p.stock <= 5), sort((a, b) => a.stock -
\* b.stock), slice(0, 5), each with the name of its model
LowStockThreshold == 5
\* the comparison with its operands exchanged
MoreStockSwapped(a, b) == JsLess(Whole(0), JsSub(b.stock, a.stock))
MoreStock(a, b) == JsLess(Whole(0), JsSub(a.stock, b.stock))
LowStockItems(allProducts) ==
    LET low == SelectSeq(allProducts, LAMBDA p : JsLessEq(p.stock, Whole(LowStockThreshold)))
        first == Slice(Sort(MoreStock, low, Len(low)))
    IN [i \in 1..Len(first) |->
           [name |-> first[i].name, stock |-> first[i].stock, price |-> first[i].price,
            category |-> first[i].category]]

\* The keys of productSales are strings: an entry without a name is
\* counted under "undefined".  productSales is a plain object, so the
\* first read of a key it inherits finds the inherited member.
PropertyKey(name) == IF name = Absent THEN "undefined" ELSE name
ObjectPrototypeKeys == {"constructor"}
\* Object.keys(productSales) after the first n sales, in insertion order
\* (no modelled name is a numeral)
RECURSIVE ProductKeys(_, _)
ProductKeys(arr, n) ==
    IF n = 0 THEN <<>>
    ELSE LET done == ProductKeys(arr, n - 1)
             key == PropertyKey(arr[n].name)
         IN IF \E i \in 1..Len(done) : done[i] = key THEN done ELSE Append(done, key)
\* productSales[key] after the first n sales
RECURSIVE ProductSales(_, _, _)
ProductSales(arr, n, key) ==
    IF n = 0
    THEN IF key \in ObjectPrototypeKeys THEN JsFunction ELSE JsUndefined
    ELSE LET acc == ProductSales(arr, n - 1, key)
         IN IF PropertyKey(arr[n].name) = key
            THEN JsAdd(IF Truthy(acc) THEN acc ELSE Whole(0), arr[n].quantity)
            ELSE acc
\* topSelling: one entry per key with the revenue of the sales whose name
\* is (===) the key, sort((a, b) => b.quantity - a.quantity), slice(0, 5)
FewerSold(a, b) == JsLess(Whole(0), JsSub(b.quantity, a.quantity))
TopSelling(salesData) ==
    LET keys == ProductKeys(salesData, Len(salesData))
        Named(name) == SelectSeq(salesData, LAMBDA s : s.name # Absent /\ s.name = name)
        entries == [i \in 1..Len(keys) |->
                       [name |-> keys[i],
                        quantity |-> ProductSales(salesData, Len(salesData), keys[i]),
                        revenue |-> Reduce(Total, Named(keys[i]), Len(Named(keys[i])))]]
    IN Slice(Sort(FewerSold, entries, Len(entries)))

\* stockValueByCategory: (acc[category] || 0) + price * stock per product
RECURSIVE StockValue(_, _)
StockValue(arr, n) ==
    IF n = 0 THEN JsUndefined
    ELSE LET acc == StockValue(arr, n - 1)
         IN JsAdd(IF Truthy(acc) THEN acc ELSE Whole(0), Value(arr[n]))
StockValueByCategory ==
    [cat \in {c \in Categories : Len(Find(c)) > 0} |-> StockValue(Find(cat), Len(Find(cat)))]

\* GET /api/dashboard/stats: the body and the outcome
StatsReport(q) ==
    IF QueryThrows(q)
    THEN [op |-> "stats", query |-> q, status |-> 500]
    ELSE [op |-> "stats", query |-> q, status |-> 200,
          summary |-> Summary(q),
          salesByCategory |->
              [cat \in {SalesData(q)[i].category : i \in 1..Len(SalesData(q))} |->
                  SalesByCategory(SalesData(q), Len(SalesData(q)), cat)],
          salesTrend |-> SalesTrend(SalesData(q)),
          lowStockItems |-> LowStockItems(AllProducts),
          topSelling |-> TopSelling(SalesData(q)),
          stockValueByCategory |-> StockValueByCategory]

\* a stats route that also drops the entries outside the queried range
StatsOutcomePruning(q) ==
    Outcome(Response("stats", 200, ""), products,
            SelectSeq(sales, LAMBDA e : InSaleQuery(e, q)), nextId)

StatsOutcome(q) ==
    Outcome(IF QueryThrows(q)
            THEN Response("stats", 500, "Failed to fetch dashboard statistics")
            ELSE Response("stats", 200, ""),
            products, sales, nextId)

\* GET /api/dashboard/inventory-status
InventoryStatusReport ==
    [op |-> "inventory-status",
     status |-> 200,
     totalProducts |-> Len(AllProducts),
     inStock |-> Len(SelectSeq(AllProducts, LAMBDA p : JsLess(Whole(0), p.stock))),
     lowStock |-> Len(SelectSeq(AllProducts,
                     LAMBDA p : JsLess(Whole(0), p.stock) /\ JsLessEq(p.stock, Whole(5)))),
     outOfStock |-> Len(SelectSeq(AllProducts, LAMBDA p : p.stock = Whole(0))),
     stockValueByCategory |-> StockValueByCategory]

InventoryStatusOutcome == Outcome(Response("inventory-status", 200, ""), products, sales, nextId)

\* GET /api/dashboard/sales-analytics?period: the window starts a week, a
\* month (30 days here) or a year (365 days) before now; any other period
\* is treated as a month.  Day 0 is the first day of a month, so that the
\* day of the month of an instant is its local day + 1.
Periods == {"week", "month", "year", "day"}
PeriodStart(period) ==
    CASE period = "week" -> now - 7 * DayLen
      [] period = "year" -> now - 365 * DayLen
      [] OTHER -> now - 30 * DayLen
GroupKey(period, e) ==
    CASE period = "week" -> [by |-> "day", n |-> UtcDay(e.date)]
      [] period = "month" -> [by |-> "week", n |-> (LocalDay(e.date) + 1 + 6) \div 7]
      [] OTHER -> [by |-> "month", n |-> 0]
SalesAnalyticsReport(period) ==
    LET found == SelectSeq(sales,
                    LAMBDA e : e.date >= PeriodStart(period) /\ e.type = "deduct")
        sorted == SortByDate(found, Len(found))
        Group(key) == SelectSeq(sorted, LAMBDA e : GroupKey(period, e) = key)
    IN [op |-> "sales-analytics",
        status |-> 200,
        period |-> period,
        startDate |-> PeriodStart(period),
        endDate |-> now,
        data |-> [key \in {GroupKey(period, sorted[i]) : i \in 1..Len(sorted)} |->
                     [sales |-> Reduce(Quantity, Group(key), Len(Group(key))),
                      revenue |-> Reduce(Total, Group(key), Len(Group(key)))]]]

SalesAnalyticsOutcome(period) ==
    Outcome(Response("sales-analytics", 200, ""), products, sales, nextId)

\* GET /api/sales/logs?start&end&productId ("" for no productId): the
\* entries from start to end, of the product, newest first
LogsFilter(start, end, productId) == [start |-> start, end |-> end, productId |-> productId]
LogsThrows(f) == f.start = BadDate \/ f.end = BadDate \/ f.productId = MalformedId
InLogsFilter(e, f) ==
    /\ (f.start = NoDate \/ e.date >= ParseDate(f.start))
    /\ (f.end = NoDate \/ e.date <= ParseDate(f.end))
    /\ (f.productId = "" \/ e.productId = f.productId)
LogsReport(f) ==
    IF LogsThrows(f)
    THEN [op |-> "logs", filter |-> f, status |-> 500]
    ELSE [op |-> "logs", filter |-> f, status |-> 200,
          logs |-> SortByDateDesc(SelectSeq(sales, LAMBDA e : InLogsFilter(e, f)))]
LogsOutcome(f) ==
    Outcome(IF LogsThrows(f) THEN ServerError("logs") ELSE Response("logs", 200, ""),
            products, sales, nextId)

\* the handler answers: nothing but the response changes
Answer(o, body) ==
    /\ products' = o.products
    /\ sales' = o.sales
    /\ nextId' = o.nextId
    /\ res' = o.res
    /\ report' = body
    /\ UNCHANGED <<expected, handlers, staleWrite, rejected, now, tz, dst>>

GetStats(q) == Answer(StatsOutcome(q), StatsReport(q))
GetInventoryStatus == Answer(InventoryStatusOutcome, InventoryStatusReport)
GetSalesAnalytics(period) == Answer(SalesAnalyticsOutcome(period), SalesAnalyticsReport(period))
GetSalesLogs(f) == Answer(LogsOutcome(f), LogsReport(f))

\* inputs: the queried day is day 1
StatsQueries ==
    {StatsQuery(s, e) : s \in {NoDate, OnDay(1)}, e \in {NoDate, OnDay(1), BadDate}}
LogsFilters ==
    {LogsFilter(NoDate, e, p) : e \in {NoDate, OnDay(2)}, p \in {"", IdPool[1], MalformedId}}

\* the server's time zone: UTC, one instant west of it, one east
TzOffsets == {0, 0 - 1, 1}

\* ledgers the aggregators are applied to: up to MaxEntries entries of a
\* shoe, written by add and deduct, in the order they were written
EntryDates ==
    {DayLen - 1, DayLen, DayLen + 2, 2 * DayLen - 1, 2 * DayLen}
Entries ==
    {[productId |-> IdPool[1], category |-> "Shoes", name |-> "Air",
      quantity |-> Whole(q), price |-> Whole(3), total |-> Whole(3 * q),
      type |-> type, date |-> d] :
        q \in {1, 2}, type \in {"add", "deduct"}, d \in EntryDates}
Ledgers ==
    {l \in UNION {[1..n -> Entries] : n \in 0..MaxEntries} :
        \A i \in 1..(Len(l) - 1) : l[i].date <= l[i + 1].date}
Catalogs ==
    [Ids -> {NoDoc,
             [category |-> "Shoes", name |-> "Air", stock |-> Whole(0), price |-> Whole(3)],
             [category |-> "Shoes", name |-> "Air", stock |-> Whole(2), price |-> Whole(3)]}]

InitStats ==
    /\ now = DayLen * MaxDay + 1
    /\ tz \in TzOffsets
    /\ dst = NoDst
    /\ products \in Catalogs
    /\ sales \in Ledgers
    /\ nextId = MaxProducts + 1
    /\ res = Response("none", 0, "")
    /\ expected = [i \in Ids |-> Void]
    /\ handlers = [h \in Handlers |-> [pc |-> "idle", plan |-> NoPlan, seen |-> JsUndefined]]
    /\ staleWrite = FALSE
    /\ rejected = 0
    /\ report = NoReport

NextStats ==
    \/ \E q \in StatsQueries : GetStats(q)
    \/ GetInventoryStatus
    \/ \E period \in Periods : GetSalesAnalytics(period)
    \/ \E f \in LogsFilters : GetSalesLogs(f)

SpecStats == InitStats /\ [][NextStats]_vars

(* ------------------------- dashboard inputs --------------------------- *)
\* The lists of the dashboard are computed from catalogs of up to BoardSize
\* products and from ledgers of sales of up to BoardSize names, the sales
\* trend from ledgers dated over more than a week, at the start of a UTC
\* day and later in it, in zones that did and did not change their clock.

BoardIds == {IdPool[i] : i \in 1..BoardSize}
BoardNames == <<"Air", "Boot", "Clutch", "Tote", "Gown", "Sari", "Mule", "Hobo">>

\* catalogs: each product is one of four, short of stock or not
BoardDocs ==
    {[category |-> "Shoes", name |-> "Air", stock |-> Whole(0), price |-> Whole(3)],
     [category |-> "Bags", name |-> "Clutch", stock |-> Whole(2), price |-> Whole(3)],
     [category |-> "Bags", name |-> "Tote", stock |-> Whole(5), price |-> Whole(1)],
     [category |-> "Dresses", name |-> "Gown", stock |-> Whole(6), price |-> Whole(3)]}
BoardCatalogs == [BoardIds -> BoardDocs]
\* catalogs of up to three bags, one of them stored without a price (its
\* create request had none and answered 500 after the catalog write)
PricedDocs ==
    {NoDoc,
     [category |-> "Bags", name |-> "Clutch", stock |-> Whole(2), price |-> Whole(3)],
     [category |-> "Bags", name |-> "Tote", stock |-> Whole(1), price |-> JsUndefined],
     [category |-> "Shoes", name |-> "Air", stock |-> Whole(0 - 1), price |-> Whole(3)]}
PricedCatalogs ==
    {c \in [BoardIds -> PricedDocs] : \A i \in 4..BoardSize : c[IdPool[i]] = NoDoc}

\* a sale of quantity q of product n, named name, at instant d
Sold(n, name, q, type, d) ==
    [productId |-> IdPool[n], category |-> "Bags", name |-> name,
     quantity |-> Whole(q), price |-> Whole(3), total |-> Whole(3 * q),
     type |-> type, date |-> d]
\* ledgers of sales: product n of the first BoardSize is named
\* BoardNames[n] and sold 3 or 4 times; a last entry may follow: a sale
\* of another product named as product 3, of a product without a name, of
\* a product named "constructor", or a restock
LastEntries ==
    {Sold(BoardSize + 1, name, 4, "deduct", DayLen) : name \in {"Clutch", Absent, "constructor"}}
        \cup {Sold(1, "Air", 4, "add", DayLen)}
NameLedgers ==
    {l \o last :
        l \in {[n \in 1..k |-> Sold(n, BoardNames[n], q[n], "deduct", DayLen)] :
                  q \in [1..BoardSize -> {3, 4}], k \in {2, BoardSize}},
        last \in {<<>>} \cup {<<e>> : e \in LastEntries}}

\* ledgers of the sales trend: entries of the day before the week, of its
\* first day and of its last three days
TrendDates ==
    {(0 - 4) * DayLen - 1, (0 - 4) * DayLen, 1, DayLen - 1, DayLen, 2 * DayLen - 1, 2 * DayLen}
TrendLedgers ==
    {l \in UNION {[1..n -> {Sold(1, "Air", q, type, d) :
                              q \in {1, 2}, type \in {"add", "deduct"}, d \in TrendDates}] :
                   n \in 0..MaxEntries} :
        \A i \in 1..(Len(l) - 1) : l[i].date <= l[i + 1].date}
\* the zone's clock was set back, or forward, by one instant on day 1
ClockChanges == {NoDst, [at |-> DayLen, by |-> 0 - 1], [at |-> DayLen, by |-> 1]}

BoardQueries == {StatsQuery(NoDate, NoDate), StatsQuery(OnDay(0), NoDate)}

InitBoard ==
    /\ \/ /\ now = DayLen * MaxDay + 1 /\ tz = 0 /\ dst = NoDst
          /\ products \in BoardCatalogs \cup PricedCatalogs
          /\ sales = <<>>
       \/ /\ now = DayLen * MaxDay + 1 /\ tz = 0 /\ dst = NoDst
          /\ products = [i \in BoardIds |-> NoDoc]
          /\ sales \in NameLedgers
       \/ /\ now \in {DayLen * MaxDay, DayLen * MaxDay + 1}
          /\ tz \in TzOffsets
          /\ dst \in ClockChanges
          /\ products = [i \in BoardIds |-> NoDoc]
          /\ sales \in TrendLedgers
    /\ nextId = MaxProducts + 1
    /\ res = Response("none", 0, "")
    /\ expected = [i \in Ids |-> Void]
    /\ handlers = [h \in Handlers |-> [pc |-> "idle", plan |-> NoPlan, seen |-> JsUndefined]]
    /\ staleWrite = FALSE
    /\ rejected = 0
    /\ report = NoReport

NextBoard ==
    \/ \E q \in BoardQueries : GetStats(q)
    \/ GetInventoryStatus

SpecBoard == InitBoard /\ [][NextBoard]_vars

(* ------------------------- claims: Spec ------------------------------- *)

\* a quantity that is a positive integer, the only kind the handlers are
\* meant to accept
PositiveInteger(q) == IsWhole(q) /\ q.v > 0
\* the number a quantity stands for is defined and is at most 0
AtMostZero(q) == IsNumber(ToNumber(q)) /\ ToNumber(q).v <= 0
CatalogAndLedgerUnchanged == products' = products /\ sales' = sales

\* C1: after successful AddStock and DeductStock calls, with no
\* UpdateProduct in between, a product's stock is its initial stock plus
\* the added quantities minus the deducted quantities.
C1_StockIsInitialPlusAddsMinusDeducts ==
    \A i \in Ids :
        (products[i] # NoDoc /\ expected[i] # Void) => products[i].stock = expected[i]

\* C4: every stored product has stock >= 0 in every reachable state.
C4_StockNeverNegative ==
    \A i \in Ids :
        (products[i] # NoDoc /\ IsNumber(products[i].stock)) => products[i].stock.v >= 0

\* C5: DeductStock of a (positive) quantity greater than the product's
\* current stock is answered 400 "Not enough stock" and changes neither the
\* stock nor the ledger.  Stated of the handler's outcome in every
\* reachable state, for every request.
C5_DeductBeyondStockIsRejected ==
    \A cat \in Categories, id \in Ids, q \in Quantities :
        (/\ FindById(cat, id) # NoDoc
         /\ IsNumber(FindById(cat, id).stock)
         /\ IsNumber(ToNumber(q))
         /\ ToNumber(q).v > 0
         /\ ToNumber(q).v > FindById(cat, id).stock.v)
        => LET o == DeductOutcome(cat, id, q, TRUE)
           IN /\ o.res = Response("deduct", 400, "Not enough stock")
              /\ o.products = products
              /\ o.sales = sales

\* C5 witness: a deduct was refused for lack of stock on a stored product.
C5_Witness ==
    /\ res = Response("deduct", 400, "Not enough stock")
    /\ \E i \in Ids : products[i] # NoDoc /\ IsNumber(products[i].stock)

\* C6: a successful AddStock or DeductStock appends exactly one ledger
\* entry, with the product's id, the call's type and the quantity by which
\* the stock changed, and leaves the earlier entries as they were.
C6_OneMatchingLedgerEntry ==
    [][\A cat \in Categories, id \in Ids, q \in Quantities :
        (/\ res'.status = 200
         /\ IsWhole(products[id].stock)
         /\ products[id].stock.v >= 0
         /\ (AddStock(cat, id, q, TRUE) \/ DeductStock(cat, id, q, TRUE)))
        => (/\ Len(sales') = Len(sales) + 1
            /\ SubSeq(sales', 1, Len(sales)) = sales
            /\ LET e == sales'[Len(sales')]
               IN /\ e.productId = id
                  /\ e.type = res'.op
                  /\ e.quantity = IF res'.op = "add"
                                  THEN JsSub(products'[id].stock, products[id].stock)
                                  ELSE JsSub(products[id].stock, products'[id].stock))]_vars

\* C8: DeductStock with a quantity <= 0 is answered 400 "Invalid quantity"
\* in every category, whether the id resolves or not, and changes neither
\* the stock nor the ledger.  Stated of the handler's outcome in every
\* reachable state, for every request.
C8_NonPositiveDeductIsInvalid ==
    \A cat \in Categories, id \in ReqIds, q \in Quantities :
        AtMostZero(q)
        => LET o == DeductOutcome(cat, id, q, TRUE)
           IN /\ o.res = Response("deduct", 400, "Invalid quantity")
              /\ o.products = products
              /\ o.sales = sales

\* C8 witness: a deduct was refused as invalid while no product exists.
C8_Witness ==
    /\ res = Response("deduct", 400, "Invalid quantity")
    /\ \A i \in Ids : products[i] = NoDoc

\* C9: AddStock and DeductStock on an existing product are answered 400
\* "Invalid quantity" for every quantity that is not a positive integer,
\* and then change neither the stock nor the ledger.
C9_OnlyPositiveIntegersAccepted ==
    [][\A cat \in Categories, id \in Ids, q \in Quantities :
        (/\ res'.op \in {"add", "deduct"}
         /\ FindById(cat, id) # NoDoc
         /\ IsWhole(FindById(cat, id).stock)
         /\ FindById(cat, id).stock.v >= 0
         /\ ~PositiveInteger(q)
         /\ (AddStock(cat, id, q, TRUE) \/ DeductStock(cat, id, q, TRUE)))
        => (/\ res'.status = 400
            /\ res'.error = "Invalid quantity"
            /\ CatalogAndLedgerUnchanged)]_vars

\* C10: AddStock and DeductStock with a valid positive quantity and an id
\* that resolves to no product of the named category are answered 404 and
\* change neither the catalog nor the ledger.
C10_UnresolvedIdIsNotFound ==
    [][\A cat \in Categories, id \in ReqIds, q \in Quantities :
        (/\ res'.op \in {"add", "deduct"}
         /\ PositiveInteger(q)
         /\ FindById(cat, id) = NoDoc
         /\ (AddStock(cat, id, q, TRUE) \/ DeductStock(cat, id, q, TRUE)))
        => (/\ res'.status = 404
            /\ CatalogAndLedgerUnchanged)]_vars

\* the ledger entry a step appended
Appended == sales'[Len(sales')]

\* C11: a CreateProduct that stores a product appends exactly one ledger
\* entry for it, of type 'add', with quantity the product's initial stock
\* and total price x stock; so no product is in the catalog, once its
\* create has completed, without such an entry.
C11_CreatePairsProductWithAddEntry ==
    [][nextId' # nextId
       => (/\ Len(sales') = Len(sales) + 1
           /\ SubSeq(sales', 1, Len(sales)) = sales
           /\ Appended.productId = IdPool[nextId]
           /\ Appended.type = "add"
           /\ Appended.quantity = products'[IdPool[nextId]].stock
           /\ Appended.total = JsMul(products'[IdPool[nextId]].price,
                                     products'[IdPool[nextId]].stock))]_vars

\* C12: a CreateProduct whose stock is absent or is no number succeeds
\* and stores the product with stock 0.
C12_MissingStockDefaultsToZero ==
    [][\A cat \in Categories, name \in Names, stock \in CreateStocks, price \in CreatePrices :
        (/\ res'.op = "create"
         /\ ~IsNumber(ToNumber(stock))
         /\ Create(cat, name, stock, price, TRUE))
        => (/\ res'.status = 201
            /\ products'[IdPool[nextId]].stock = Whole(0))]_vars

\* C13: a successful AddStock of a positive integer, in every category,
\* increases the stock by the quantity and appends a ledger entry of type
\* 'add' whose total is the product's price x quantity.
C13_AddRecordsPriceTimesQuantity ==
    [][\A cat \in Categories, id \in Ids, q \in Quantities :
        (/\ res'.op = "add"
         /\ res'.status = 200
         /\ PositiveInteger(q)
         /\ IsWhole(products[id].stock)
         /\ products[id].stock.v >= 0
         /\ AddStock(cat, id, q, TRUE))
        => (/\ products'[id].stock = JsAdd(products[id].stock, q)
            /\ Len(sales') = Len(sales) + 1
            /\ Appended.type = "add"
            /\ Appended.total = JsMul(products[id].price, q))]_vars

\* C15: every ledger entry has a quantity that is a positive integer;
\* stated of the entries whose quantity is not negative, which leaves the
\* entries of products created with a negative stock (C4) aside.
C15_LedgerQuantitiesArePositiveIntegers ==
    \A n \in 1..Len(sales) :
        ~JsLess(sales[n].quantity, Whole(0)) => PositiveInteger(sales[n].quantity)

\* C16: every ledger entry is written with the name and the unit price
\* its product has at that moment, in all three categories; stated of the
\* products whose stock is a whole number >= 0.
C16_EntryCarriesNameAndPrice ==
    [][(/\ Len(sales') = Len(sales) + 1
        /\ IsWhole(products'[Appended.productId].stock)
        /\ products'[Appended.productId].stock.v >= 0)
       => (/\ Appended.name = products'[Appended.productId].name
           /\ Appended.price = products'[Appended.productId].price)]_vars

\* C17: UpdateProduct and DeleteProduct leave the ledger as it is, whether
\* they succeed or fail and whatever the update overwrites.  Stated of the
\* handlers' outcomes in every reachable state, for every request.
C17_UpdateAndDeleteLeaveLedger ==
    \A id \in ReqIds :
        /\ DeleteOutcome(id).sales = sales
        /\ \A body \in UpdateBodies : UpdateOutcome(id, body.stock, body.price).sales = sales

\* C17 witness: an update has overwritten the stock of a product that has
\* ledger entries.
C17_Witness ==
    /\ res = Response("update", 200, "")
    /\ \E i \in Ids :
          /\ products[i].stock = Whole(0 - 1)
          /\ \E n \in 1..Len(sales) : sales[n].productId = i

\* the product with this id was created and has been deleted
Deleted(id) ==
    /\ id \in Ids
    /\ products[id] = NoDoc
    /\ \E n \in 1..(nextId - 1) : IdPool[n] = id

\* C18: after a product was deleted, GetById, AddStock, DeductStock,
\* UpdateProduct and DeleteProduct on its id (with a valid quantity) are
\* answered 404 and change nothing; and a DeleteProduct on an id that
\* resolves to no product is answered 404 and removes nothing.
C18_GoneIdsAreNotFound ==
    [][/\ \A id \in ReqIds :
            (/\ res'.op = "delete"
             /\ FindById("Shoes", id) = NoDoc
             /\ DeleteProduct(id))
            => (res'.status = 404 /\ CatalogAndLedgerUnchanged)
       /\ \A id \in Ids, q \in Quantities, body \in UpdateBodies :
            (/\ Deleted(id)
             /\ PositiveInteger(q)
             /\ \/ GetProduct("Shoes", id)
                \/ AddStock("Shoes", id, q, TRUE)
                \/ DeductStock("Shoes", id, q, TRUE)
                \/ UpdateProduct(id, body))
            => (res'.status = 404 /\ CatalogAndLedgerUnchanged)]_vars

\* the ledger s is the present ledger with entries appended, if any
Extends(s) == Len(s) >= Len(sales) /\ SubSeq(s, 1, Len(sales)) = sales

OutcomeClass(r) ==
    CASE r.status = 200 -> "success"
      [] r.status = 404 -> "NotFound"
      [] r.status = 400 /\ r.error = "Invalid quantity" -> "InvalidQuantity"
      [] r.status = 400 -> "InsufficientStock"
      [] OTHER -> "error"
\* two outcomes of the same class that leave the same catalog and ledger
Alike(o1, o2) ==
    /\ OutcomeClass(o1.res) = OutcomeClass(o2.res)
    /\ o1.products = o2.products
    /\ o1.sales = o2.sales

\* C25: the add and deduct endpoints of the three categories answer a
\* request alike.  Stated for the ids that resolve in neither of two
\* categories, whatever the quantity: both endpoints give the same outcome
\* class and leave the same catalog and ledger.
C25_CategoriesAnswerAlike ==
    \A id \in ReqIds, q \in Quantities, c1 \in Categories, c2 \in Categories :
        (FindById(c1, id) = NoDoc /\ FindById(c2, id) = NoDoc) =>
            /\ Alike(AddOutcome(c1, id, q, TRUE), AddOutcome(c2, id, q, TRUE))
            /\ Alike(DeductOutcome(c1, id, q, TRUE), DeductOutcome(c2, id, q, TRUE))

\* every product created so far is stored as create, add and deduct left
\* it: none was updated or deleted, and no write has failed
OnlyStockMoves ==
    /\ rejected = 0
    /\ \A n \in 1..(nextId - 1) :
          products[IdPool[n]] # NoDoc /\ expected[IdPool[n]] # Void
\* the summary of the dashboard asked without a date filter
WholeSummary == Summary(StatsQuery(NoDate, NoDate))

\* C27: after create, add and deduct calls run one after the other, with
\* no update, no delete and no failed write, the summary without a date
\* filter has totalStock = totalRestocked - totalSales (also when every
\* product was created with a stock >= 0).
C27_SummaryReconcilesWithLedger ==
    (OnlyStockMoves /\ nextId > 1 /\ \A i \in 1..Len(sales) : sales[i].quantity.v >= 0)
    => WholeSummary.totalStock = JsSub(WholeSummary.totalRestocked, WholeSummary.totalSales)

\* C28: in every state the create, add, deduct, update and delete calls
\* lead to, inventory-status counts every product once, as in stock or as
\* out of stock (inStock + outOfStock = totalProducts), and lowStock <=
\* inStock.
C28_EveryProductInOrOutOfStock ==
    /\ InventoryStatusReport.inStock + InventoryStatusReport.outOfStock
          = InventoryStatusReport.totalProducts
    /\ InventoryStatusReport.lowStock <= InventoryStatusReport.inStock

(* ------------------------ claims: SpecFail ---------------------------- *)

\* C7: when the ledger append of CreateProduct, AddStock or DeductStock
\* fails, the operation is reported as failed and its catalog write (the
\* new product, the changed stock) is not in the catalog afterwards.
C7_FailedAppendLeavesNoEffect ==
    [][rejected' # rejected
       => (res'.status = 500 /\ CatalogAndLedgerUnchanged)]_vars

(* ------------------------ claims: SpecConc ---------------------------- *)

\* every handler has answered
Quiescent == \A h \in Handlers : handlers[h].pc = "idle"

\* the sum of the quantities (in half units) of the first n ledger entries
\* of product id that have the given type
RECURSIVE LedgerSum(_, _, _)
LedgerSum(id, type, n) ==
    IF n = 0 THEN 0
    ELSE LedgerSum(id, type, n - 1)
         + (IF sales[n].productId = id /\ sales[n].type = type
            THEN sales[n].quantity.v ELSE 0)
LedgerNet(id) == LedgerSum(id, "add", Len(sales)) - LedgerSum(id, "deduct", Len(sales))

\* the deducts that answered success took more than was ever put in
Oversold(id) == LedgerNet(id) < 0

\* C2: once all concurrently running handlers have completed, a product's
\* stock is the sum of its 'add' ledger quantities minus the sum of its
\* 'deduct' ledger quantities.
C2_StockEqualsLedgerNetWhenQuiescent ==
    Quiescent
    => \A i \in Ids : products[i] # NoDoc => products[i].stock = JsNum(LedgerNet(i))

\* C3 as stated: when concurrently running deducts have completed and
\* have together taken more than the product had, its stored stock has
\* become negative.
C3_OversellingDrivesStockNegative ==
    \A i \in Ids :
        (Quiescent /\ products[i] # NoDoc /\ Oversold(i)) => products[i].stock.v < 0

\* C3 amended: under every interleaving of the handlers the stored stock
\* stays >= 0, also when racing deducts have oversold the product: each
\* handler saves the value it computed from its own read, which had passed
\* the stock check.
C3_RacingDeductsKeepStockNonNegative ==
    \A i \in Ids : products[i] # NoDoc => products[i].stock.v >= 0

\* C3 witness: two deducts raced on one product (one saved over a stock it
\* had not read), both answered, and the ledger shows more deducted than
\* added.
C3_Witness ==
    /\ Quiescent
    /\ staleWrite
    /\ \E i \in Ids : products[i] # NoDoc /\ Oversold(i)

\* handler h has applied its catalog write and not yet appended its entry
Written(h) == handlers[h].pc = "log"

\* C26: in the create, add and deduct handlers the catalog write comes
\* before the ledger append, in every interleaving: a handler gets past
\* its catalog write only by applying it, and the ledger grows only by
\* the entry of a handler that is past its catalog write.  A handler that
\* stops in between leaves the stock changed and no entry; no step leaves
\* an entry whose catalog write is still to come.
C26_CatalogWriteBeforeLedgerAppend ==
    [][/\ \A h \in Handlers :
            (~Written(h) /\ Written(h)') =>
                /\ handlers[h].pc = "save"
                /\ products' = Stored(handlers[h].plan)
                /\ sales' = sales
       /\ sales' # sales =>
            \E h \in Handlers :
                /\ Written(h)
                /\ sales' = Append(sales, handlers[h].plan.sale)
                /\ products' = products]_vars

\* C26 witness: a deduct has written the stock and appended its entry,
\* while another handler has written the stock and not yet its entry
C26_Witness ==
    /\ Len(sales) >= 2
    /\ sales[Len(sales)].type = "deduct"
    /\ \E h \in Handlers :
          /\ Written(h)
          /\ products[handlers[h].plan.id].stock = handlers[h].plan.doc.stock

(* ------------------------ claims: SpecStats --------------------------- *)

\* C19: the aggregators (dashboard stats, inventory-status,
\* sales-analytics) leave every product and every ledger entry as they
\* are, and a call repeated at the same instant over the unchanged catalog
\* and ledger returns the body the last call returned.
C19_AggregatorsAreReadOnly ==
    /\ \A q \in StatsQueries :
          StatsOutcome(q).products = products /\ StatsOutcome(q).sales = sales
    /\ InventoryStatusOutcome.products = products /\ InventoryStatusOutcome.sales = sales
    /\ \A period \in Periods :
          /\ SalesAnalyticsOutcome(period).products = products
          /\ SalesAnalyticsOutcome(period).sales = sales
    /\ report.op = "stats" => report = StatsReport(report.query)
    /\ report.op = "inventory-status" => report = InventoryStatusReport
    /\ report.op = "sales-analytics" => report = SalesAnalyticsReport(report.period)

\* C19 witness: the stats were computed over a catalog with a product and
\* a ledger with sales.
C19_Witness ==
    /\ report.op = "stats"
    /\ report.status = 200
    /\ report.summary.totalProducts > 0
    /\ report.summary.totalSales # Whole(0)

\* the entry's day, read by Day, lies in the range of days the caller gave
InCallerRange(e, q, Day(_)) ==
    /\ (q.startDate = NoDate \/ Day(e.date) >= q.startDate.day)
    /\ (q.endDate = NoDate \/ Day(e.date) <= q.endDate.day)
\* the sum of F over the ledger's entries of a type in the caller's range
SumInRange(F(_), type, q, Day(_)) ==
    LET chosen == SelectSeq(sales, LAMBDA e : e.type = type /\ InCallerRange(e, q, Day))
    IN Reduce(F, chosen, Len(chosen))
SummaryIsOfRange(Day(_)) ==
    /\ report.summary.totalSales = SumInRange(Quantity, "deduct", report.query, Day)
    /\ report.summary.totalRevenue = SumInRange(Total, "deduct", report.query, Day)
    /\ report.summary.totalRestocked = SumInRange(Quantity, "add", report.query, Day)

\* C20: the Summary's totalSales, totalRevenue and totalRestocked are the
\* sums over the 'deduct', 'deduct' and 'add' entries whose date lies in
\* the caller's range of days, both end days included (every entry when no
\* range is given); the days are read in UTC or on the server's clock,
\* whichever fits.
C20_SummarySumsEntriesInRange ==
    (report.op = "stats" /\ report.status = 200)
    => (SummaryIsOfRange(UtcDay) \/ SummaryIsOfRange(LocalDay))

(* ------------------------ claims: SpecBoard --------------------------- *)

\* the stats route answered 200
StatsAnswered == report.op = "stats" /\ report.status = 200
\* the 'deduct' entries it read, and those among them sold under a name
\* (an entry without a name goes by "undefined")
SalesRead == SalesData(report.query)
SoldAs(name) == SelectSeq(SalesRead, LAMBDA e : PropertyKey(e.name) = name)
NamesSold == {PropertyKey(SalesRead[i].name) : i \in 1..Len(SalesRead)}
QuantitySold(name) == Reduce(Quantity, SoldAs(name), Len(SoldAs(name)))
RevenueOf(name) == Reduce(Total, SoldAs(name), Len(SoldAs(name)))

\* C21: topSelling holds at most 5 entries, one per name sold (all, when
\* there are at most 5), each with the summed quantity and the summed
\* revenue of the 'deduct' entries of that name, in non-increasing order
\* of quantity, and no name left out sold more than a name in the list.
C21_TopSellingMergesNamesAndKeepsTheBest ==
    StatsAnswered =>
        LET top == report.topSelling
        IN /\ Len(top) <= 5
           /\ Len(top) = (IF Cardinality(NamesSold) < 5 THEN Cardinality(NamesSold) ELSE 5)
           /\ \A i \in 1..Len(top) :
                /\ top[i].name \in NamesSold
                /\ top[i].quantity = QuantitySold(top[i].name)
                /\ top[i].revenue = RevenueOf(top[i].name)
           /\ \A i, j \in 1..Len(top) : i < j =>
                /\ top[i].name # top[j].name
                /\ top[i].quantity.v >= top[j].quantity.v
           /\ \A name \in NamesSold \ {top[i].name : i \in 1..Len(top)} :
                \A i \in 1..Len(top) : QuantitySold(name).v <= top[i].quantity.v

\* what the list shows of a product, and how often seq holds x
Listed(p) == [name |-> p.name, stock |-> p.stock, price |-> p.price, category |-> p.category]
Count(seq, x) == Cardinality({i \in 1..Len(seq) : seq[i] = x})
Below(seq, stock) == Cardinality({i \in 1..Len(seq) : JsLess(seq[i].stock, stock)})

\* C22: lowStockItems holds at most 5 entries, each a product of the
\* catalog with stock <= 5 shown with its own category, in non-decreasing
\* order of stock, and every product with less stock than an entry of the
\* list is in the list.
C22_LowStockItemsAreTheFiveLowest ==
    StatsAnswered =>
        LET low == report.lowStockItems
            all == [i \in 1..Len(AllProducts) |-> Listed(AllProducts[i])]
        IN /\ Len(low) <= 5
           /\ \A i \in 1..Len(low) :
                /\ JsLessEq(low[i].stock, Whole(5))
                /\ Count(all, low[i]) >= Count(low, low[i])
                /\ Below(all, low[i].stock) = Below(low, low[i].stock)
           /\ \A i, j \in 1..Len(low) : i < j => JsLessEq(low[i].stock, low[j].stock)

\* a catalog of six products short of stock, of three categories, was
\* listed: five are shown, the one left out is of the largest stock
C22_Witness ==
    /\ StatsAnswered
    /\ Len(SelectSeq(AllProducts, LAMBDA p : JsLessEq(p.stock, Whole(5)))) = BoardSize
    /\ Len(report.lowStockItems) = 5
    /\ {report.lowStockItems[i].stock : i \in 1..5} = {Whole(0), Whole(2), Whole(5)}
    /\ {report.lowStockItems[i].category : i \in 1..5} = {"Shoes", "Bags"}
    /\ report.lowStockItems[1].category = "Shoes"
    /\ products[IdPool[1]].category = "Bags"

\* the 'deduct' entries read that are of day d, by the reading Day of
\* "calendar day" (the UTC date or the date on the server's clock)
SalesOfDay(d, Day(_)) == SelectSeq(SalesRead, LAMBDA e : Day(e.date) = d)
TrendIsOfDays(Day(_)) ==
    LET trend == report.salesTrend
    IN /\ Len(trend) = 7
       /\ \A k \in 1..6 : trend[k + 1].date = trend[k].date + 1
       /\ trend[7].date = Day(now)
       /\ \A k \in 1..7 :
            LET daySales == SalesOfDay(trend[k].date, Day)
            IN /\ trend[k].sales = Reduce(Quantity, daySales, Len(daySales))
               /\ trend[k].revenue = Reduce(Total, daySales, Len(daySales))

\* C23: salesTrend has exactly 7 points, of consecutive calendar days,
\* oldest first, the last one of the current day; each point carries the
\* summed quantity and revenue of the 'deduct' entries of its day, zero
\* when there are none.
C23_SalesTrendCoversTheLastSevenDays ==
    StatsAnswered => (TrendIsOfDays(UtcDay) \/ TrendIsOfDays(LocalDay))

\* the stored products, and those of a category
Stocked == {i \in DOMAIN products : products[i] # NoDoc}
\* price x stock of a product, counted as 0 when the product lacks one
ValueOrZero(p) == IF IsNumber(Value(p)) THEN Value(p) ELSE Whole(0)

\* C24: inventory-status counts the products with stock > 0 (inStock),
\* with 0 < stock <= 5 (lowStock) and with stock = 0 (outOfStock) over
\* the three categories, and gives for each category that has products
\* the sum of price x stock of its products (whether a product without a
\* price makes the sum undefined or counts as 0).
C24_InventoryStatusCountsAndValues ==
    report.op = "inventory-status" =>
        /\ report.inStock =
              Cardinality({i \in Stocked : IsNumber(products[i].stock) /\ products[i].stock.v > 0})
        /\ report.lowStock =
              Cardinality({i \in Stocked : /\ IsNumber(products[i].stock)
                                           /\ products[i].stock.v > 0
                                           /\ products[i].stock.v <= 2 * 5})
        /\ report.outOfStock = Cardinality({i \in Stocked : products[i].stock = Whole(0)})
        /\ \A cat \in {products[i].category : i \in Stocked} :
              /\ cat \in DOMAIN report.stockValueByCategory
              /\ \/ report.stockValueByCategory[cat] = Reduce(Value, Find(cat), Len(Find(cat)))
                 \/ report.stockValueByCategory[cat] = Reduce(ValueOrZero, Find(cat), Len(Find(cat)))
====
